---------------------------- MODULE Spec2Model ----------------------------
(***************************************************************************)
(* A model of the potions REST service: the auth router (register, login,  *)
(* logout, authMiddleware), the potions router (CRUD), and the two search  *)
(* handlers of the analytics routers.  The state is the two collections of *)
(* the document store (User, Potion), the requests that are suspended at   *)
(* an await, the client's cookie jar, the server's clock, the last request *)
(* answered with its response, and two histories: the credentials, as     *)
(* sent, of the register requests answered 201, and the tokens that the    *)
(* login handler has issued.                                               *)
(*                                                                         *)
(* Strings that the code transforms (usernames, passwords, potion names)   *)
(* are sequences of one-character strings, so trim, escape and length are  *)
(* computed as the code computes them.                                     *)
(***************************************************************************)
EXTENDS Integers, Sequences, FiniteSets

VARIABLES users, potions, nextId, pending, jar, clock, req, resp, accepted, issued

vars == <<users, potions, nextId, pending, jar, clock, req, resp, accepted, issued>>

---------------------------------------------------------------------------
(* Bounds of the model.                                                    *)

\* Potion ids the store may generate (one per successful POST /potions).
MaxPotions == 3

\* Register requests that may be suspended at their save at the same time.
MaxPending == 2

\* Login requests that may be suspended at an await at the same time.
MaxLogins == 1

\* POST /potions requests that may be suspended at their save at the same
\* time.
MaxPosts == 1

\* PUT requests that may be suspended at their save at the same time.
MaxPuts == 1

\* The clock stops advancing once it has reached this many hours.
MaxClock == 36

\* Hours by which one step of the clock advances it.
TickHours == 12

\* Length of the over-long username of the input set (one more than allowed).
LongLen == 31

---------------------------------------------------------------------------
(* Program constants.                                                      *)

\* isLength({ min: 3, max: 30 }) on the username.
MinUsername == 3
MaxUsername == 30

\* isLength({ min: 6 }) on the password.
MinPassword == 6

\* expiresIn: '1d', in hours.
ExpiresIn == 24

\* err.code of the store's duplicate-key error.
DuplicateKey == 11000

---------------------------------------------------------------------------
(* Strings.                                                                *)

RECURSIVE LTrim(_)
\* validator's trim, left part: drops leading whitespace.
LTrim(s) == IF s # <<>> /\ Head(s) = " " THEN LTrim(Tail(s)) ELSE s

RECURSIVE RTrim(_)
\* validator's trim, right part: drops trailing whitespace.
RTrim(s) == IF s # <<>> /\ s[Len(s)] = " " THEN RTrim(SubSeq(s, 1, Len(s) - 1)) ELSE s

\* .trim() of the sanitizer chain.
Trim(s) == RTrim(LTrim(s))

\* validator's escape, one character: the HTML entity of & " ' < > / (the
\* backslash and the backquote, which it escapes too, are not characters
\* of the model's inputs).
EscapeChar(c) ==
    CASE c = "&"  -> <<"&", "a", "m", "p", ";">>
      [] c = "\"" -> <<"&", "q", "u", "o", "t", ";">>
      [] c = "'"  -> <<"&", "#", "x", "2", "7", ";">>
      [] c = "<"  -> <<"&", "l", "t", ";">>
      [] c = ">"  -> <<"&", "g", "t", ";">>
      [] c = "/"  -> <<"&", "#", "x", "2", "F", ";">>
      [] OTHER    -> <<c>>

RECURSIVE Escape(_)
\* .escape() of the sanitizer chain.
Escape(s) == IF s = <<>> THEN <<>> ELSE EscapeChar(Head(s)) \o Escape(Tail(s))

\* body(field).trim().escape(): the value the handler then reads in req.body.
Sanitize(s) == Escape(Trim(s))

RECURSIVE Repeat(_, _)
Repeat(c, n) == IF n = 0 THEN <<>> ELSE <<c>> \o Repeat(c, n - 1)

---------------------------------------------------------------------------
(* Inputs.                                                                 *)

\* Usernames a client sends: a plain one, the same with leading white
\* space, one that escape changes, one too short, one too long.
Usernames ==
    { <<"a", "b", "c">>, <<" ", "a", "b", "c">>, <<"o", "'", "b">>,
      <<"a", "b">>, Repeat("a", LongLen) }

\* Passwords a client sends: a plain one, one that escape changes, one too
\* short.
Passwords ==
    { <<"s", "e", "c", "r", "e", "t">>, <<"p", "<", "w", "o", "r", "d">>,
      <<"a", "b", "c">> }

\* The credentials of the runs in which logins are suspended: a plain
\* username and one that escape changes, a plain password and one that is
\* too short to register.
FewUsernames == {<<"a", "b", "c">>, <<"o", "'", "b">>}
FewPasswords == {<<"s", "e", "c", "r", "e", "t">>, <<"a", "b", "c">>}

---------------------------------------------------------------------------
(* Responses.                                                              *)

\* What a handler sends: the status, the error or message of the JSON body,
\* the validation errors of the body, the documents or report entries of
\* the body, the cookie it sets, whether it clears the cookie, and the
\* claims authMiddleware put in req.user (empty when it did not call next).
\* For the search handlers, ran is the pipeline or filter the handler ran
\* on the store (empty when it ran none).
Response(status, error) ==
    [status |-> status, error |-> error, errors |-> {}, body |-> {},
     setCookie |-> {}, clearCookie |-> FALSE, user |-> {}, ran |-> {}]

---------------------------------------------------------------------------
(* The User model and the credential service.                              *)

\* The stored form of a password: a one-way hash of it.
Hash(p) == <<"hash", p>>

\* user.comparePassword(candidate): hash and compare.
ComparePassword(user, candidate) == user.password = Hash(candidate)

\* User.findOne({ username }).
FindUser(username) == {u \in users : u.username = username}

\* user.save() of a new user: the unique index on username refuses a
\* second user of the same name with error code 11000 (0: saved).
SaveUserCode(username) == IF FindUser(username) # {} THEN DuplicateKey ELSE 0

---------------------------------------------------------------------------
(* Session tokens and cookies.                                             *)

\* A cookie value as cookie-parser hands it to the handler.
\*   kind:    "absent" (no cookie), "object" (a j: JSON cookie, not a
\*            string), "blank" (white space only), "garbage" (a string that
\*            has not the three parts of a JWT), "jwt" (three parts under a
\*            header of typ JWT, as jwt.sign writes it)
\*   payload: "claims" (a JSON object), "text" (no JSON at all)
\*   sig:     "good" (signed with the value of JWT_SECRET), "bad" (any
\*            other signature)
\*   nbf:     the not-before time of the claims, if they carry one
Cookie(kind) ==
    [kind |-> kind, payload |-> "none", sig |-> "none", id |-> 0,
     username |-> <<>>, iat |-> 0, nbf |-> {}, exp |-> 0]

\* A variant of jwt.sign whose tokens expire after one step of the clock.
JwtSignShort(id, username, now) ==
    [kind |-> "jwt", payload |-> "claims", sig |-> "good", id |-> id,
     username |-> username, iat |-> now, nbf |-> {}, exp |-> now + TickHours]

\* jwt.sign({ id, username }, JWT_SECRET, { expiresIn: '1d' }) at time now.
JwtSign(id, username, now) ==
    [kind |-> "jwt", payload |-> "claims", sig |-> "good", id |-> id,
     username |-> username, iat |-> now, nbf |-> {}, exp |-> now + ExpiresIn]

\* The decoded claims of a token.
Claims(token) ==
    [id |-> token.id, username |-> token.username, iat |-> token.iat,
     nbf |-> token.nbf, exp |-> token.exp]

\* jwt.verify(token, JWT_SECRET) at time now: the name of the error it
\* throws, or "ok".  The token is decoded first, and decoding a payload
\* that is no JSON under a header of typ JWT throws the SyntaxError of
\* JSON.parse as it is; then the signature is checked, then nbf, then exp.
JwtVerify(token, now) ==
    IF token.kind # "jwt" THEN "JsonWebTokenError"
    ELSE IF token.payload # "claims" THEN "SyntaxError"
    ELSE IF token.sig # "good" THEN "JsonWebTokenError"
    ELSE IF \E n \in token.nbf : n > now THEN "NotBeforeError"
    ELSE IF now >= token.exp THEN "TokenExpiredError"
    ELSE "ok"

\* A token a client can forge without the secret: any payload, a signature
\* that does not verify.
Forged(exp) ==
    [kind |-> "jwt", payload |-> "claims", sig |-> "bad", id |-> 1,
     username |-> <<"a", "b", "c">>, iat |-> 0, nbf |-> {}, exp |-> exp]

\* A token whose payload is text that is no JSON, under any signature.
Unparsable ==
    [kind |-> "jwt", payload |-> "text", sig |-> "bad", id |-> 0,
     username |-> <<>>, iat |-> 0, nbf |-> {}, exp |-> 0]

\* The cookie values a client without the secret can make up.
JunkCookies ==
    { Cookie("absent"), Cookie("object"), Cookie("blank"), Cookie("garbage"),
      Forged(0), Forged(MaxClock + ExpiresIn), Unparsable }

\* JWT_SECRET is process.env.JWT_SECRET || 'dev_secret': where the
\* environment sets no secret, the secret is the one written in the source,
\* and any client can sign claims of its choice.  Here: the user's own
\* claims, not to be used before the clock's first step.
DevSecretCookies ==
    { [JwtSign(1, <<"a", "b", "c">>, 0) EXCEPT !.nbf = {TickHours}] }

\* The three 401 answers of authMiddleware, and its 500.
TokenMissing == Response(401, "Token d'authentification manquant ou invalide")
TokenExpired == Response(401, "Session expiree, veuillez vous reconnecter.")
TokenInvalid == Response(401, "Jeton non valide.")
AuthFailure == Response(500, "Erreur d'authentification")

\* authMiddleware on a cookie at time now: whether it calls next(), and the
\* response it sends when it does not (with next, res carries req.user).
AuthMiddleware(cookie, now) ==
    IF cookie.kind \in {"absent", "object", "blank"}
    THEN [next |-> FALSE, res |-> TokenMissing]
    ELSE LET err == JwtVerify(cookie, now) IN
         IF err = "ok"
         THEN [next |-> TRUE,
               res |-> [Response(200, "") EXCEPT !.user = {Claims(cookie)}]]
         ELSE IF err = "TokenExpiredError"
         THEN [next |-> FALSE, res |-> TokenExpired]
         ELSE IF err = "JsonWebTokenError"
         THEN [next |-> FALSE, res |-> TokenInvalid]
         ELSE [next |-> FALSE, res |-> AuthFailure]

---------------------------------------------------------------------------
(* POST /auth/register.                                                    *)

\* The validation chain of one field after sanitizing: notEmpty, isLength.
FieldErrors(field, value, min, max) ==
    (IF value = <<>> THEN {[field |-> field, msg |-> "requis"]} ELSE {})
    \cup (IF Len(value) < min \/ Len(value) > max
          THEN {[field |-> field, msg |-> "longueur"]} ELSE {})

\* validationResult(req) of the register chain on the sanitized body;
\* the password has no maximum length.
ValidationErrors(username, password) ==
    FieldErrors("username", username, MinUsername, MaxUsername)
    \cup FieldErrors("password", password, MinPassword, Len(password))

\* A variant of the catch block that answers every failed save 400.
SaveErrorAs400(code) == Response(400, "save failed")

\* The catch block of register: the response for a failed save.
SaveError(code) ==
    IF code = DuplicateKey THEN Response(500, "Erreur systeme")
    ELSE Response(400, "save failed")

\* The sanitizers and the validation run, then new User(req.body) and the
\* handler suspends at await user.save().
RegisterBegin(username, password) ==
    LET u == Sanitize(username)
        p == Sanitize(password)
        errors == ValidationErrors(u, p)
        r == [op |-> "register", username |-> username, password |-> password,
              stored |-> u, secret |-> p]
    IN  /\ IF errors # {}
           THEN /\ req' = r
                /\ resp' = [Response(400, "") EXCEPT !.errors = errors]
                /\ UNCHANGED pending
           ELSE /\ Cardinality(pending) < MaxPending
                /\ pending' = pending \cup {r}
                /\ UNCHANGED <<req, resp>>
        /\ UNCHANGED <<users, potions, nextId, jar, clock, accepted, issued>>

\* user.save() settles: the password is hashed and the user inserted, or
\* the unique index refuses it; then the handler answers.
RegisterSave(r) ==
    LET code == SaveUserCode(r.stored) IN
    /\ r.op = "register"
    /\ pending' = pending \ {r}
    /\ req' = r
    /\ IF code = 0
       THEN /\ users' = users \cup {[id |-> Cardinality(users) + 1,
                                     username |-> r.stored,
                                     password |-> Hash(r.secret)]}
            /\ resp' = Response(201, "Utilisateur cree")
            /\ accepted' = accepted \cup {<<r.username, r.password>>}
       ELSE /\ UNCHANGED <<users, accepted>>
            /\ resp' = SaveError(code)
    /\ UNCHANGED <<potions, nextId, jar, clock, issued>>

---------------------------------------------------------------------------
(* POST /auth/login and GET /auth/logout.                                  *)

InvalidCredentials == Response(401, "Identifiants invalides")

\* A variant of login that tells an unknown username from a wrong password.
LoginLeaky(found, password, now) ==
    IF found = {} THEN Response(401, "Utilisateur inconnu")
    ELSE LET user == CHOOSE u \in found : TRUE
             token == JwtSign(user.id, user.username, now)
         IN  IF ~ComparePassword(user, password) THEN InvalidCredentials
             ELSE [Response(200, "Connecte avec succes")
                     EXCEPT !.setCookie = {token}, !.body = {token}]

\* The response of login once User.findOne has given found (no user, or
\* one) and, with a user, comparePassword has settled, at time now.
LoginResponse(found, password, now) ==
    IF found = {} THEN InvalidCredentials
    ELSE LET user == CHOOSE u \in found : TRUE
             token == JwtSign(user.id, user.username, now)
         IN  IF ~ComparePassword(user, password) THEN InvalidCredentials
             ELSE [Response(200, "Connecte avec succes")
                     EXCEPT !.setCookie = {token}, !.body = {token}]

\* The login handler starts: it reads the body as sent and suspends at
\* await User.findOne({ username }).
LoginBegin(username, password) ==
    /\ Cardinality({r \in pending : r.op = "login"}) < MaxLogins
    /\ pending' = pending \cup
                    {[op |-> "login", username |-> username,
                      password |-> password, at |-> clock,
                      stage |-> "findOne", found |-> {}]}
    /\ UNCHANGED <<users, potions, nextId, jar, clock, req, resp, accepted, issued>>

\* User.findOne settles.  Without a user the handler answers 401 at once;
\* with one it suspends again, at await user.comparePassword(password).
LoginFindOne(r) ==
    LET found == FindUser(r.username) IN
    /\ r.op = "login"
    /\ r.stage = "findOne"
    /\ IF found = {}
       THEN /\ pending' = pending \ {r}
            /\ req' = r
            /\ resp' = LoginResponse(found, r.password, clock)
       ELSE /\ pending' = (pending \ {r}) \cup
                            {[r EXCEPT !.stage = "comparePassword",
                                       !.found = found]}
            /\ UNCHANGED <<req, resp>>
    /\ UNCHANGED <<users, potions, nextId, jar, clock, accepted, issued>>

\* comparePassword settles: 401, or the token is signed at the present
\* time and sent; the client's jar takes the cookie the response sets.
LoginCompare(r) ==
    LET res == LoginResponse(r.found, r.password, clock) IN
    /\ r.op = "login"
    /\ r.stage = "comparePassword"
    /\ pending' = pending \ {r}
    /\ req' = r
    /\ resp' = res
    /\ jar' = IF res.setCookie # {} THEN res.setCookie ELSE jar
    /\ issued' = issued \cup res.setCookie
    /\ UNCHANGED <<users, potions, nextId, clock, accepted>>

\* The logout handler clears the cookie.
Logout ==
    /\ req' = [op |-> "logout", at |-> clock]
    /\ resp' = [Response(200, "Deconnecte") EXCEPT !.clearCookie = TRUE]
    /\ jar' = {}
    /\ UNCHANGED <<users, potions, nextId, pending, clock, accepted, issued>>

\* Time passes.
Tick ==
    /\ clock < MaxClock
    /\ clock' = clock + TickHours
    /\ UNCHANGED <<users, potions, nextId, pending, jar, req, resp, accepted, issued>>

---------------------------------------------------------------------------
(* The Potion model.                                                       *)

\* Request bodies for a potion.  A document is a record of the fields it
\* has; price is the numeric field of the model, the others are strings
\* (name a sequence of characters).
PotionBodies ==
    { [name |-> <<"A", "b">>, vendor_id |-> "v1", price |-> 10],
      [name |-> <<"b">>, vendor_id |-> "v1", price |-> 20, category |-> "c1"],
      [name |-> <<"b">>, vendor_id |-> "v2", price |-> 5],
      [name |-> <<"A", "b">>, vendor_id |-> "v2"],
      [vendor_id |-> "v1", price |-> 10] }

\* The bodies of the session's runs: one valid, one invalid.
FewBodies ==
    { [name |-> <<"b">>, vendor_id |-> "v2", price |-> 5],
      [vendor_id |-> "v1", price |-> 10] }

\* The fields whose values are numbers.
NumericFields == {"price"}

\* The schema's validation on save: name is required.
ValidPotion(doc) == "name" \in DOMAIN doc

\* A stored document as a response shows it.
Stored(id, doc) == [id |-> id, doc |-> doc]

\* Potion.find(): the documents of the collection.
AllPotions == {Stored(id, potions[id]) : id \in DOMAIN potions}

\* The ids of valid ObjectId form a client may name.
PotionIds == 1 .. MaxPotions

---------------------------------------------------------------------------
(* POST /potions.                                                          *)

\* The POST requests that are suspended at their save.
PendingPosts == {r \in pending : r.op = "createPotion"}

\* The request arrives: authMiddleware verifies the cookie at the present
\* time and answers 401, or calls next(); the handler then builds
\* new Potion(req.body) and suspends at await newPotion.save().
PostPotionBegin(cookie, body) ==
    LET auth == AuthMiddleware(cookie, clock)
        r == [op |-> "createPotion", cookie |-> cookie, body |-> body,
              at |-> clock]
    IN  /\ IF ~auth.next
           THEN /\ req' = r
                /\ resp' = auth.res
                /\ UNCHANGED pending
           ELSE /\ Cardinality(PendingPosts) < MaxPosts
                /\ ValidPotion(body)
                     => nextId + Cardinality(PendingPosts) <= MaxPotions
                /\ pending' = pending \cup {r}
                /\ UNCHANGED <<req, resp>>
        /\ UNCHANGED <<users, potions, nextId, jar, clock, accepted, issued>>

\* newPotion.save() settles: a failed validation is caught and answered
\* 400; otherwise the document is stored under a new id and sent back, 201.
\* req.user is what authMiddleware set when the request arrived.
PostPotionSave(r) ==
    LET res == [Response(200, "") EXCEPT !.user = {Claims(r.cookie)}] IN
    /\ r.op = "createPotion"
    /\ pending' = pending \ {r}
    /\ req' = r
    /\ IF ~ValidPotion(r.body)
       THEN /\ resp' = [res EXCEPT !.status = 400,
                                   !.error = "validation failed"]
            /\ UNCHANGED <<potions, nextId>>
       ELSE /\ nextId <= MaxPotions
            /\ potions' = [i \in DOMAIN potions \cup {nextId} |->
                              IF i = nextId THEN r.body ELSE potions[i]]
            /\ nextId' = nextId + 1
            /\ resp' = [res EXCEPT !.status = 201,
                                   !.body = {Stored(nextId, r.body)}]
    /\ UNCHANGED <<users, jar, clock, accepted, issued>>

---------------------------------------------------------------------------
(* PUT /potions/:id and DELETE /potions/:id.                               *)

\* The bodies of the PUT requests: one valid, one without a name.
PutBodies ==
    { [name |-> <<"A", "b">>, vendor_id |-> "v1", price |-> 10],
      [vendor_id |-> "v1", price |-> 10] }

\* What the handler does once Potion.findById(id) has settled with null:
\* potion.overwrite(...) throws a TypeError, which the catch block answers.
PutMissing == Response(500, "TypeError: potion is null")

\* Potion.findById(id) settles.  With no such document the handler answers
\* at once; with one, it overwrites its copy and suspends at await
\* potion.save().
PutFind(id, body) ==
    LET r == [op |-> "updatePotion", id |-> id, body |-> body,
              found |-> id \in DOMAIN potions]
    IN  /\ IF ~r.found
           THEN /\ req' = r
                /\ resp' = PutMissing
                /\ UNCHANGED pending
           ELSE /\ Cardinality({p \in pending : p.op = "updatePotion"}) < MaxPuts
                /\ pending' = pending \cup {r}
                /\ UNCHANGED <<req, resp>>
        /\ UNCHANGED <<users, potions, nextId, jar, clock, accepted, issued>>

\* potion.save() settles: a failed validation and a document deleted in
\* the meantime are errors, which the catch block answers 500; otherwise
\* the stored document is replaced and sent back.
PutSave(r) ==
    /\ r.op = "updatePotion"
    /\ pending' = pending \ {r}
    /\ req' = r
    /\ IF ~ValidPotion(r.body)
       THEN /\ resp' = Response(500, "validation failed")
            /\ UNCHANGED potions
       ELSE IF r.id \notin DOMAIN potions
       THEN /\ resp' = Response(500, "No document found")
            /\ UNCHANGED potions
       ELSE /\ potions' = [potions EXCEPT ![r.id] = r.body]
            /\ resp' = [Response(200, "") EXCEPT !.body = {Stored(r.id, r.body)}]
    /\ UNCHANGED <<users, nextId, jar, clock, accepted, issued>>

\* Potion.findByIdAndDelete(id), one operation of the store.
DeletePotion(id) ==
    /\ req' = [op |-> "deletePotion", id |-> id]
    /\ IF id \in DOMAIN potions
       THEN /\ potions' = [i \in DOMAIN potions \ {id} |-> potions[i]]
            /\ resp' = [Response(200, "") EXCEPT
                          !.body = {Stored(id, potions[id])}]
       ELSE /\ resp' = Response(404, "Potion not found")
            /\ UNCHANGED potions
    /\ UNCHANGED <<users, nextId, pending, jar, clock, accepted, issued>>

---------------------------------------------------------------------------
(* The store's $group stage.                                               *)

\* The value of a path in a document as a group key: <<v>>, or <<>> (null)
\* when the document has no such field.
Key(doc, path) == IF path \in DOMAIN doc THEN <<doc[path]>> ELSE <<>>

\* Whether the path holds a number in the document; $sum and $avg skip the
\* documents in which it does not.
IsNumber(doc, path) == path \in NumericFields /\ path \in DOMAIN doc

RECURSIVE SumOver(_, _)
\* The sum of the (numeric) path over the documents of the given ids.
SumOver(ids, path) ==
    IF ids = {} THEN 0
    ELSE LET i == CHOOSE x \in ids : TRUE
         IN  potions[i][path] + SumOver(ids \ {i}, path)

RECURSIVE GCD(_, _)
GCD(a, b) == IF b = 0 THEN a ELSE GCD(b, a % b)

\* A number as the fraction num / den in lowest terms.
Fraction(num, den) ==
    LET g == GCD(num, den) IN <<num \div g, den \div g>>

\* A variant of the accumulator that totals where it should average.
AccumulateSumForAvg(op, ids, path) ==
    LET nums == {i \in ids : IsNumber(potions[i], path)} IN
    Fraction(SumOver(nums, path), 1)

\* The accumulator of a group: $sum is the total of the numeric values (0
\* when there is none), $avg their mean (null, <<>>, when there is none).
Accumulate(op, ids, path) ==
    LET nums == {i \in ids : IsNumber(potions[i], path)} IN
    IF op = "sum" THEN Fraction(SumOver(nums, path), 1)
    ELSE IF nums = {} THEN <<>>
    ELSE Fraction(SumOver(nums, path), Cardinality(nums))

\* Potion.aggregate([{ $group: { _id: "$<id>", <name>: { "$<op>": "$<arg>" }}}]):
\* the store refuses the accumulator $count with an argument that is not
\* the empty document; otherwise one entry per key.
Aggregate(stage) ==
    IF stage.op = "count" THEN [ok |-> FALSE, docs |-> {}]
    ELSE [ok |-> TRUE,
          docs |-> { [id |-> k, name |-> stage.name,
                      value |-> Accumulate(stage.op,
                                  {i \in DOMAIN potions :
                                      Key(potions[i], stage.id) = k},
                                  stage.arg)] :
                     k \in {Key(potions[i], stage.id) : i \in DOMAIN potions} }]

---------------------------------------------------------------------------
(* GET /analytics/search, the report handler (grouped statistics).         *)

\* Query strings of the report; "" is an absent (or empty) parameter.
ReportQueries ==
    [groupBy : {"", "vendor_id", "category", "name"},
     metric : {"", "avg", "sum", "count", "max"},
     field : {"", "price", "vendor_id"}]

validMetrics == {"avg", "sum", "count"}

\* The $group stage the handler builds from the query.
GroupStage(q) ==
    [id |-> q.groupBy, name |-> q.metric, op |-> q.metric, arg |-> q.field]

\* The response of the report handler.
ReportResponse(q) ==
    IF q.groupBy = "" \/ q.metric = "" \/ q.field = ""
    THEN Response(400, "Tous les parametres sont requis.")
    ELSE IF q.metric \notin validMetrics
    THEN Response(400, "Metrique invalide. Utilisez avg, sum ou count.")
    ELSE LET result == Aggregate(GroupStage(q)) IN
         IF result.ok
         THEN [Response(200, "") EXCEPT !.body = result.docs,
                                        !.ran = {GroupStage(q)}]
         ELSE [Response(500, "aggregate failed") EXCEPT !.ran = {GroupStage(q)}]

SearchReport(q) ==
    /\ req' = [op |-> "searchReport", query |-> q]
    /\ resp' = ReportResponse(q)
    /\ UNCHANGED <<users, potions, nextId, pending, jar, clock, accepted, issued>>

---------------------------------------------------------------------------
(* GET /analytics/search, the handler of router/analytics.js, which is the *)
(* router app.js mounts under /analytics (filtered find).                  *)

\* Query strings: the three filters the handler reads (<<>> and "" are an
\* absent parameter) and the three report parameters, which it does not.
FilterQueries ==
    { [name |-> n, vendor_id |-> v, category |-> c,
       groupBy |-> r[1], metric |-> r[2], field |-> r[3]] :
      n \in {<<>>, <<"a">>}, v \in {"", "v1"}, c \in {"", "c1"},
      r \in { <<"", "", "">>, <<"vendor_id", "avg", "price">>,
              <<"vendor_id", "max", "price">> } }

\* Lower case of a character.
LowerChar(c) == CASE c = "A" -> "a" [] c = "B" -> "b" [] OTHER -> c

\* { $regex: pattern, $options: 'i' } on a name, for a pattern of letters:
\* the pattern occurs in the name, case ignored.
RegexMatch(name, pattern) ==
    \E i \in 1 .. (Len(name) - Len(pattern) + 1) :
        \A j \in 1 .. Len(pattern) :
            LowerChar(name[i + j - 1]) = LowerChar(pattern[j])

\* The filter the handler builds: a condition for each parameter given.
Filter(q) ==
    [name |-> IF q.name # <<>> THEN {q.name} ELSE {},
     vendor_id |-> IF q.vendor_id # "" THEN {q.vendor_id} ELSE {},
     category |-> IF q.category # "" THEN {q.category} ELSE {}]

\* Whether a document matches the filter.
Matches(doc, f) ==
    /\ \A n \in f.name : "name" \in DOMAIN doc /\ RegexMatch(doc.name, n)
    /\ \A v \in f.vendor_id : Key(doc, "vendor_id") = <<v>>
    /\ \A c \in f.category : Key(doc, "category") = <<c>>

\* The response of the mounted handler: Potion.find(query), always 200.
FilterResponse(q) ==
    [Response(200, "") EXCEPT
        !.body = {d \in AllPotions : Matches(d.doc, Filter(q))},
        !.ran = {Filter(q)}]

Search(q) ==
    /\ req' = [op |-> "search", query |-> q]
    /\ resp' = FilterResponse(q)
    /\ UNCHANGED <<users, potions, nextId, pending, jar, clock, accepted, issued>>

---------------------------------------------------------------------------
(* GET /potions/price-range.                                               *)

\* Values of the query parameters min and max, as sequences of characters;
\* <<>> is an absent (or empty) parameter.
QueryNumbers ==
    { <<>>, <<"a", "b", "c">>, <<"1", "0", "a", "b", "c">>, <<"5">>,
      <<"1", "0">>, <<"7", ".", "5">>, <<"-", "1">>, <<" ", "2", "0">> }

Digits == {"0", "1", "2", "3", "4", "5", "6", "7", "8", "9"}

\* The value of a digit.
DigitValue(c) ==
    CASE c = "0" -> 0 [] c = "1" -> 1 [] c = "2" -> 2 [] c = "3" -> 3
      [] c = "4" -> 4 [] c = "5" -> 5 [] c = "6" -> 6 [] c = "7" -> 7
      [] c = "8" -> 8 [] c = "9" -> 9

\* The length of the longest prefix of s made of digits.
DigitPrefix(s) ==
    CHOOSE n \in 0 .. Len(s) :
        /\ \A i \in 1 .. n : s[i] \in Digits
        /\ n < Len(s) => s[n + 1] \notin Digits

RECURSIVE DigitsValue(_)
\* The number a sequence of digits writes in base ten.
DigitsValue(s) ==
    IF s = <<>> THEN 0
    ELSE DigitsValue(SubSeq(s, 1, Len(s) - 1)) * 10 + DigitValue(s[Len(s)])

RECURSIVE PowerOfTen(_)
PowerOfTen(n) == IF n = 0 THEN 1 ELSE 10 * PowerOfTen(n - 1)

\* parseFloat(s): leading white space is skipped, then the longest prefix
\* that is a decimal literal (a sign, digits, a point and digits) is the
\* number and what follows it is ignored; NaN (<<>>) when there is no such
\* prefix.  A number is the fraction <<num, den>> in lowest terms.  (The
\* exponent part and Infinity are not in the model's inputs.)
ParseFloat(s) ==
    LET t == LTrim(s)
        signed == t # <<>> /\ t[1] \in {"+", "-"}
        u == IF signed THEN Tail(t) ELSE t
        n == DigitPrefix(u)
        afterInt == SubSeq(u, n + 1, Len(u))
        pointed == afterInt # <<>> /\ afterInt[1] = "."
        f == IF pointed THEN DigitPrefix(Tail(afterInt)) ELSE 0
        mantissa == SubSeq(u, 1, n) \o
                    (IF pointed THEN SubSeq(Tail(afterInt), 1, f) ELSE <<>>)
        magnitude == Fraction(DigitsValue(mantissa), PowerOfTen(f))
    IN  IF n + f = 0 THEN <<>>
        ELSE IF signed /\ t[1] = "-" THEN <<0 - magnitude[1], magnitude[2]>>
        ELSE magnitude

\* isNaN(x) of a parsed number.
IsNaN(x) == x = <<>>

\* a <= b for two fractions of positive denominators.
Leq(a, b) == a[1] * b[2] <= b[1] * a[2]

\* Whether a document matches { price: { $gte: min, $lte: max } }: it has
\* a price, within the bounds.
InPriceRange(doc, min, max) ==
    /\ IsNumber(doc, "price")
    /\ Leq(min, <<doc.price, 1>>)
    /\ Leq(<<doc.price, 1>>, max)

\* The response of the handler.
PriceRangeResponse(qmin, qmax) ==
    LET min == ParseFloat(qmin)
        max == ParseFloat(qmax)
    IN  IF IsNaN(min) \/ IsNaN(max)
        THEN Response(400, "Invalid price range")
        ELSE [Response(200, "") EXCEPT
                !.body = {d \in AllPotions : InPriceRange(d.doc, min, max)},
                !.ran = {[gte |-> min, lte |-> max]}]

PriceRange(qmin, qmax) ==
    /\ req' = [op |-> "priceRange", min |-> qmin, max |-> qmax]
    /\ resp' = PriceRangeResponse(qmin, qmax)
    /\ UNCHANGED <<users, potions, nextId, pending, jar, clock, accepted, issued>>

---------------------------------------------------------------------------
(* GET /analytics/strength_flavor_ratio, in both analytics routers.        *)

\* Request bodies with ratings: a full one, one whose flavor is 0, one
\* without flavor, one without ratings.
RatedBodies ==
    { [name |-> <<"b">>, ratings |-> [strength |-> 4, flavor |-> 2]],
      [name |-> <<"b">>, ratings |-> [strength |-> 3, flavor |-> 0]],
      [name |-> <<"b">>, ratings |-> [strength |-> 3]],
      [name |-> <<"b">>, vendor_id |-> "v1"] }

\* The value of "$ratings.<name>" in a document: <<v>>, or <<>> (missing).
Rating(doc, name) ==
    IF "ratings" \in DOMAIN doc /\ name \in DOMAIN doc.ratings
    THEN <<doc.ratings[name]>> ELSE <<>>

\* The store's $divide on two numbers or missing values: null when either
\* is missing, an error of the whole aggregate when both are numbers and
\* the divisor is 0, the quotient otherwise.
Divide(a, b) ==
    IF a = <<>> \/ b = <<>> THEN [ok |-> TRUE, value |-> <<>>]
    ELSE IF b[1] = 0 THEN [ok |-> FALSE, value |-> <<>>]
    ELSE [ok |-> TRUE, value |-> Fraction(a[1], b[1])]

\* Potion.aggregate([{ $project: { strengthFlavorRatio: { $divide: ... }}}])
\* where operands[i] is the pair of the operands' values in document i: one
\* entry per document, unless some division is an error.
Project(operands) ==
    LET q(i) == Divide(operands[i][1], operands[i][2]) IN
    IF \E i \in DOMAIN operands : ~q(i).ok
    THEN [ok |-> FALSE, docs |-> {}]
    ELSE [ok |-> TRUE,
          docs |-> { [id |-> i, strengthFlavorRatio |-> q(i).value] :
                     i \in DOMAIN operands }]

\* The response both handlers build from the aggregate's result.
RatioResponse(result) ==
    IF result.ok THEN [Response(200, "") EXCEPT !.body = result.docs]
    ELSE Response(500, "can't $divide by zero")

\* The handler of part_000: "$ratings.strength" by "$ratings.flavor".
RatioReport ==
    LET operands == [i \in DOMAIN potions |->
                        <<Rating(potions[i], "strength"),
                          Rating(potions[i], "flavor")>>]
    IN  /\ req' = [op |-> "ratioReport"]
        /\ resp' = RatioResponse(Project(operands))
        /\ UNCHANGED <<users, potions, nextId, pending, jar, clock, accepted, issued>>

\* The handler of router/analytics.js, the mounted router: "$strength" by
\* "$flavor", fields of the document's top level.
Ratio ==
    LET operands == [i \in DOMAIN potions |->
                        <<Key(potions[i], "strength"),
                          Key(potions[i], "flavor")>>]
    IN  /\ req' = [op |-> "ratio"]
        /\ resp' = RatioResponse(Project(operands))
        /\ UNCHANGED <<users, potions, nextId, pending, jar, clock, accepted, issued>>

---------------------------------------------------------------------------
(* The handlers when the store operation they await rejects (the           *)
(* connection to the store is lost).  Such a request is recorded with      *)
(* rejected = TRUE and with caught, whether a catch block of the handler   *)
(* received the rejection.                                                 *)

\* An err.code other than the duplicate key's (a network error has none).
OtherError == 1

\* The handlers of the potions router and of the mounted analytics router
\* that await one store operation inside try { } catch { } and answer 500
\* from the catch block.
CatchingEndpoints ==
    { "listPotions", "updatePotion", "deletePotion", "byVendor",
      "priceRange", "getPotion", "averageScoreByVendor",
      "averageScoreByCategory", "ratio", "search", "group" }

\* One of these handlers, for a request that reaches its store operation:
\* the operation rejects and the catch block answers.
Rejects(ep) ==
    /\ req' = [op |-> ep, rejected |-> TRUE, caught |-> TRUE]
    /\ resp' = Response(500, "store error")
    /\ UNCHANGED <<users, potions, nextId, pending, jar, clock, accepted, issued>>

\* POST /potions, suspended at newPotion.save(), which rejects: the catch
\* block answers 400.
PostPotionSaveRejects(r) ==
    /\ r.op = "createPotion"
    /\ pending' = pending \ {r}
    /\ req' = [op |-> "createPotion", cookie |-> r.cookie, body |-> r.body,
               at |-> r.at, rejected |-> TRUE, caught |-> TRUE]
    /\ resp' = [Response(400, "store error") EXCEPT
                  !.user = {Claims(r.cookie)}]
    /\ UNCHANGED <<users, potions, nextId, jar, clock, accepted, issued>>

\* POST /auth/register, suspended at user.save(), which rejects with an
\* error that is no duplicate key: the catch block answers.
RegisterSaveRejects(r) ==
    /\ r.op = "register"
    /\ pending' = pending \ {r}
    /\ req' = [op |-> "register", username |-> r.username,
               password |-> r.password, rejected |-> TRUE, caught |-> TRUE]
    /\ resp' = SaveError(OtherError)
    /\ UNCHANGED <<users, potions, nextId, jar, clock, accepted, issued>>

\* POST /auth/login, suspended at User.findOne, which rejects.  The
\* handler has no try, so the promise it returned rejects and no line of
\* the handler answers.  What the client then gets depends on the
\* framework: nothing (the rejection is unhandled), or the 500 of the
\* framework's own error handler where it observes the promise.
LoginFindOneRejects(r) ==
    /\ r.op = "login"
    /\ r.stage = "findOne"
    /\ pending' = pending \ {r}
    /\ req' = [op |-> "login", username |-> r.username,
               password |-> r.password, at |-> r.at,
               rejected |-> TRUE, caught |-> FALSE]
    /\ \E answered \in BOOLEAN :
          resp' = IF answered THEN Response(500, "Internal Server Error")
                  ELSE Response(0, "")
    /\ UNCHANGED <<users, potions, nextId, jar, clock, accepted, issued>>

---------------------------------------------------------------------------
(* The registrations: clients register from an empty store.                *)

NoRequest == [op |-> "none", at |-> 0]

Init ==
    /\ users = {}
    /\ potions = <<>>
    /\ nextId = 1
    /\ pending = {}
    /\ jar = {}
    /\ clock = 0
    /\ req = NoRequest
    /\ resp = Response(0, "")
    /\ accepted = {}
    /\ issued = {}

NextAuth ==
    \/ \E u \in Usernames, p \in Passwords : RegisterBegin(u, p)
    \/ \E r \in pending : RegisterSave(r)

SpecAuth == Init /\ [][NextAuth]_vars

---------------------------------------------------------------------------
(* The logins: clients register, log in and log out from an empty store,   *)
(* with logins and registers suspended at their awaits.                    *)

NextLogin ==
    \/ \E u \in FewUsernames, p \in FewPasswords : RegisterBegin(u, p)
    \/ \E r \in pending : RegisterSave(r)
    \/ \E u \in FewUsernames, p \in FewPasswords : LoginBegin(u, p)
    \/ \E r \in pending : LoginFindOne(r)
    \/ \E r \in pending : LoginCompare(r)
    \/ Logout

SpecLogin == Init /\ [][NextLogin]_vars

---------------------------------------------------------------------------
(* The session: one user has registered and logged in at time 0; time      *)
(* passes, the user logs out, and clients create potions with the cookie   *)
(* of the jar, with one they made up or with one they signed themselves.   *)

TheUser ==
    [id |-> 1, username |-> <<"a", "b", "c">>,
     password |-> Hash(<<"s", "e", "c", "r", "e", "t">>)]

\* The password the user registered with.
ThePassword == <<"s", "e", "c", "r", "e", "t">>

InitSession ==
    /\ users = {TheUser}
    /\ potions = <<>>
    /\ nextId = 1
    /\ pending = {}
    /\ jar = {JwtSign(TheUser.id, TheUser.username, 0)}
    /\ clock = 0
    /\ req = NoRequest
    /\ resp = Response(0, "")
    /\ accepted = {<<TheUser.username, ThePassword>>}
    /\ issued = jar

NextGate ==
    \/ Logout
    \/ Tick
    \/ \E c \in JunkCookies \cup DevSecretCookies \cup jar, b \in FewBodies :
          PostPotionBegin(c, b)
    \/ \E r \in pending : PostPotionSave(r)

SpecGate == InitSession /\ [][NextGate]_vars

---------------------------------------------------------------------------
(* The potion store: the session's user creates potions; any client        *)
(* overwrites and deletes them.                                            *)

NextStore ==
    \/ \E c \in {Cookie("absent")} \cup jar, b \in FewBodies : PostPotionBegin(c, b)
    \/ \E r \in pending : PostPotionSave(r)
    \/ \E id \in PotionIds, b \in PutBodies : PutFind(id, b)
    \/ \E r \in pending : PutSave(r)
    \/ \E id \in PotionIds : DeletePotion(id)

SpecStore == InitSession /\ [][NextStore]_vars

---------------------------------------------------------------------------
(* The reports: the session's user creates potions and any client asks     *)
(* for reports and searches.                                               *)

NextSearch ==
    \/ \E c \in jar, b \in PotionBodies : PostPotionBegin(c, b)
    \/ \E r \in pending : PostPotionSave(r)
    \/ \E q \in ReportQueries : SearchReport(q)
    \/ \E q \in FilterQueries : Search(q)

SpecSearch == InitSession /\ [][NextSearch]_vars

---------------------------------------------------------------------------
(* The ratio reports: the session's user creates potions with ratings, any *)
(* client deletes them and asks either router for the ratio report.        *)

NextRatio ==
    \/ \E c \in {Cookie("absent")} \cup jar, b \in RatedBodies : PostPotionBegin(c, b)
    \/ \E r \in pending : PostPotionSave(r)
    \/ \E id \in PotionIds : DeletePotion(id)
    \/ RatioReport
    \/ Ratio

SpecRatio == InitSession /\ [][NextRatio]_vars

---------------------------------------------------------------------------
(* The price range: the session's user creates potions, any client deletes *)
(* them and asks for the potions of a price range.                         *)

NextRange ==
    \/ \E c \in {Cookie("absent")} \cup jar, b \in PotionBodies : PostPotionBegin(c, b)
    \/ \E r \in pending : PostPotionSave(r)
    \/ \E id \in PotionIds : DeletePotion(id)
    \/ \E qmin, qmax \in QueryNumbers : PriceRange(qmin, qmax)

SpecRange == InitSession /\ [][NextRange]_vars

---------------------------------------------------------------------------
(* The outage: the session's user is logged in when the connection to the  *)
(* store is lost; clients go on sending requests to every endpoint.        *)

NextOutage ==
    \/ \E u \in Usernames, p \in Passwords : RegisterBegin(u, p)
    \/ \E r \in pending : RegisterSaveRejects(r)
    \/ \E u \in Usernames, p \in Passwords : LoginBegin(u, p)
    \/ \E r \in pending : LoginFindOneRejects(r)
    \/ \E c \in {Cookie("absent")} \cup jar, b \in FewBodies :
          PostPotionBegin(c, b)
    \/ \E r \in pending : PostPotionSaveRejects(r)
    \/ \E ep \in CatchingEndpoints : Rejects(ep)

SpecOutage == InitSession /\ [][NextOutage]_vars

---------------------------------------------------------------------------
(* The life of a token: time passes, clients register, log in and log out, *)
(* and create potions with any token a login has issued, whether or not    *)
(* the jar still holds it.                                                 *)

NextSession ==
    \/ \E u \in FewUsernames \ {TheUser.username} :
          RegisterBegin(u, ThePassword)
    \/ \E r \in pending : RegisterSave(r)
    \/ LoginBegin(TheUser.username, ThePassword)
    \/ \E r \in pending : LoginFindOne(r)
    \/ \E r \in pending : LoginCompare(r)
    \/ Logout
    \/ Tick
    \/ \E c \in issued, b \in {x \in FewBodies : ValidPotion(x)} :
          PostPotionBegin(c, b)
    \/ \E r \in pending : PostPotionSave(r)

SpecSession == InitSession /\ [][NextSession]_vars

---------------------------------------------------------------------------
(* Properties of the gate in front of POST /potions.                       *)

\* A session cookie that is present, correctly signed and unexpired.
SessionValid(cookie, now) ==
    cookie.kind = "jwt" /\ cookie.sig = "good" /\ now < cookie.exp

\* C2: a POST /potions whose cookie is no valid session when it arrives (at
\* req.at, the time at which authMiddleware runs) is answered 401 and
\* adds no potion; a potion is added only by a POST /potions for which
\* authMiddleware called next() and put the token's claims in req.user.
C2_PostNeedsSession ==
    [][ /\ (req'.op = "createPotion" /\ ~SessionValid(req'.cookie, req'.at))
            => (resp'.status = 401 /\ potions' = potions)
        /\ potions' # potions
            => /\ req'.op = "createPotion"
               /\ SessionValid(req'.cookie, req'.at)
               /\ resp'.user = {Claims(req'.cookie)}
               /\ resp'.status = 201 ]_vars

\* C3: authMiddleware answers a request in exactly one way, the cases taken
\* in the order in which the code meets them.  No cookie, a cookie that is
\* no string and a blank one get the token-missing 401; a string that is no
\* JWT, a token whose payload is malformed and a token whose signature does
\* not verify get the token-invalid 401; a token at or past its expiry gets
\* the token-expired 401; none of these calls next().  Every other token
\* verifies: next() is called with req.user the token's claims, and only
\* then.
C3_AuthMiddlewareOutcomes ==
    req.op = "createPotion" =>
        LET c == req.cookie
            missing == c.kind \in {"absent", "object", "blank"}
            invalid == /\ ~missing
                       /\ \/ c.kind = "garbage"
                          \/ c.payload # "claims"
                          \/ c.sig # "good"
            expired == ~missing /\ ~invalid /\ req.at >= c.exp
        IN  /\ missing => resp = TokenMissing
            /\ invalid => resp = TokenInvalid
            /\ expired => resp = TokenExpired
            /\ ~(missing \/ invalid \/ expired)
                  => (resp.user = {Claims(c)} /\ resp.status \in {201, 400})
            /\ resp.user # {} => ~(missing \/ invalid \/ expired)
            /\ resp.user = {} => resp.status = 401

---------------------------------------------------------------------------
(* Properties of the registrations and the logins.                         *)

\* The login request just answered named a username that no user has.
LoginUnknownUser == req.op = "login" /\ FindUser(req.username) = {}

\* The login request just answered named a user and a wrong password.
LoginWrongPassword ==
    /\ req.op = "login"
    /\ \E u \in FindUser(req.username) : ~ComparePassword(u, req.password)

\* C4: a login naming an unknown username and a login naming a known one
\* with a wrong password get the same response: the 401 with the one error
\* body and no cookie.  Both for the request just answered and for any two
\* requests the present store could be sent.
C4_LoginFailuresAlike ==
    /\ (LoginUnknownUser \/ LoginWrongPassword)
          => (resp = InvalidCredentials /\ resp.setCookie = {})
    /\ \A u1, u2 \in Usernames, p1, p2 \in Passwords :
          (/\ FindUser(u1) = {}
           /\ \E u \in FindUser(u2) : ~ComparePassword(u, p2))
          => LoginResponse(FindUser(u1), p1, clock)
                = LoginResponse(FindUser(u2), p2, clock)

\* A known user's login with a wrong password was refused, in a store where
\* some other username is unknown.
C4_Witness ==
    /\ LoginWrongPassword
    /\ resp.status = 401
    /\ \E u \in Usernames : FindUser(u) = {}

\* C5: a login with a username and password with which register returned
\* 201 returns 200 and sets a cookie whose claims carry that username.
C5_LoginAfterRegister ==
    (req.op = "login" /\ <<req.username, req.password>> \in accepted)
        => /\ resp.status = 200
           /\ resp.setCookie # {}
           /\ \A t \in resp.setCookie : Claims(t).username = req.username

\* No two users have the same username.
UniqueUsernames == \A u1, u2 \in users : u1.username = u2.username => u1 = u2

\* C6: the User collection holds at most one user per username.  When a
\* register's save settles, it is answered 201 and adds the user if no user
\* has the (sanitized) username, and otherwise it is answered 500 with the
\* system error and leaves the collection as it was; nothing else changes
\* the collection.
C6_OneUserPerUsername ==
    [][ /\ UniqueUsernames'
        /\ (\E r \in pending \ pending' : r.op = "register")
            => /\ req' \in pending
               /\ IF FindUser(req'.stored) = {}
                  THEN /\ resp'.status = 201
                       /\ \E u \in users' :
                            /\ u.username = req'.stored
                            /\ users' = users \cup {u}
                  ELSE /\ resp' = Response(500, "Erreur systeme")
                       /\ users' = users
        /\ users' # users
            => \E r \in pending \ pending' : r.op = "register" ]_vars

\* A register was refused as a duplicate although the username it sent
\* differs from the one stored: the two collide after sanitizing.
C6_Witness ==
    /\ req.op = "register"
    /\ resp = Response(500, "Erreur systeme")
    /\ req.username # req.stored
    /\ Cardinality(users) = 2

---------------------------------------------------------------------------
(* Properties of the potion store.                                         *)

\* C1: a PUT /potions/:id naming an id that is not in the collection is
\* answered 404 and leaves the collection as it was.
C1_PutMissingIs404 ==
    [][ (req'.op = "updatePotion" /\ ~req'.found)
            => (resp'.status = 404 /\ potions' = potions) ]_vars

---------------------------------------------------------------------------
(* Properties of the search handlers.                                      *)

\* The query lacks one of groupBy, metric, field, or names a metric that
\* is none of avg, sum, count.
BadReportParams(q) ==
    q.groupBy = "" \/ q.metric = "" \/ q.field = "" \/ q.metric \notin validMetrics

\* C7: the search handler mounted under /analytics answers 400 and runs no
\* store query when groupBy, metric or field is absent or metric is not one
\* of avg, sum, count.
C7_MountedSearchRejects ==
    (req.op = "search" /\ BadReportParams(req.query))
        => (resp.status = 400 /\ resp.ran = {})

\* The potions of the group of key k under groupBy.
Group(groupBy, k) == {i \in DOMAIN potions : Key(potions[i], groupBy) = k}

\* The keys of groupBy observed in the collection.
Keys(groupBy) == {Key(potions[i], groupBy) : i \in DOMAIN potions}

\* C8: a report with metric count (and a groupBy and a field) is answered
\* 200 with, for each group, the number of potions of the group.
C8_CountReport ==
    (req.op = "searchReport" /\ req.query.metric = "count"
       /\ req.query.groupBy # "" /\ req.query.field # "")
        => /\ resp.status = 200
           /\ resp.body =
                { [id |-> k, name |-> "count",
                   value |-> <<Cardinality(Group(req.query.groupBy, k)), 1>>] :
                  k \in Keys(req.query.groupBy) }

\* C9: a report with metric avg or sum (and a groupBy and a field) is
\* answered 200 with exactly one entry per key of groupBy observed in the
\* collection (a potion without the attribute has the key null), and the
\* entry's value is the total (sum) or the mean (avg) of the field over the
\* potions of the group that have a number there: 0 and null when none has.
C9_GroupedStatistics ==
    (req.op = "searchReport" /\ req.query.metric \in {"avg", "sum"}
       /\ req.query.groupBy # "" /\ req.query.field # "")
        => LET q == req.query
               Nums(k) == {i \in Group(q.groupBy, k) :
                             IsNumber(potions[i], q.field)}
           IN  /\ resp.status = 200
               /\ {e.id : e \in resp.body} = Keys(q.groupBy)
               /\ Cardinality(resp.body) = Cardinality(Keys(q.groupBy))
               /\ \A e \in resp.body :
                    /\ e.name = q.metric
                    /\ q.metric = "sum"
                         => e.value = <<SumOver(Nums(e.id), q.field), 1>>
                    /\ (q.metric = "avg" /\ Nums(e.id) = {})
                         => e.value = <<>>
                    /\ (q.metric = "avg" /\ Nums(e.id) # {})
                         => /\ Len(e.value) = 2
                            /\ e.value[2] > 0
                            /\ e.value[1] * Cardinality(Nums(e.id))
                                 = e.value[2] * SumOver(Nums(e.id), q.field)

\* The example: prices 10 and 20 for v1 and 5 for v2 give avg 15 for v1
\* and 5 for v2.
C9_Witness ==
    /\ req = [op |-> "searchReport",
              query |-> [groupBy |-> "vendor_id", metric |-> "avg",
                         field |-> "price"]]
    /\ Cardinality(DOMAIN potions) = 3
    /\ {<<Key(potions[i], "vendor_id"), Key(potions[i], "price")>> :
            i \in DOMAIN potions}
         = {<<<<"v1">>, <<10>>>>, <<<<"v1">>, <<20>>>>, <<<<"v2">>, <<5>>>>}
    /\ resp.status = 200
    /\ resp.body = { [id |-> <<"v1">>, name |-> "avg", value |-> <<15, 1>>],
                     [id |-> <<"v2">>, name |-> "avg", value |-> <<5, 1>>] }

\* The attribute names a report may group by, and measure.
GroupByAllowed == {"vendor_id", "category"}
FieldAllowed ==
    {"score", "price", "ratings.strength", "ratings.flavor",
     "ratings.duration", "ratings.sideEffects"}

\* C10: a report whose groupBy or field is outside the allow-list is
\* rejected (400) before any pipeline is built or run.
C10_ReportAllowList ==
    (req.op = "searchReport"
       /\ (req.query.groupBy \notin GroupByAllowed
              \/ req.query.field \notin FieldAllowed))
        => (resp.status = 400 /\ resp.ran = {})

---------------------------------------------------------------------------
(* Properties of the ratio reports.                                        *)

\* The ratio ratings.strength / ratings.flavor of a document: null (<<>>)
\* when flavor is 0 or missing, or strength is missing.
RatioOf(doc) ==
    LET a == Rating(doc, "strength")
        b == Rating(doc, "flavor")
    IN  IF a = <<>> \/ b = <<>> \/ b = <<0>> THEN <<>>
        ELSE Fraction(a[1], b[1])

\* C11: the ratio report of either router is answered 200 with one entry
\* per potion of the collection, whose ratio is null when the potion's
\* ratings.flavor is 0 or missing and ratings.strength / ratings.flavor
\* otherwise, whatever the other potions are.
C11_RatioPerPotion ==
    req.op \in {"ratioReport", "ratio"}
        => /\ resp.status = 200
           /\ resp.body = { [id |-> i,
                             strengthFlavorRatio |-> RatioOf(potions[i])] :
                            i \in DOMAIN potions }

---------------------------------------------------------------------------
(* Properties of the price range.                                          *)

\* A numeric string: once the white space around it is removed, a sign or
\* none, then digits with at most one point among them, and nothing else.
NumericString(s) ==
    LET t == Trim(s)
        u == IF t # <<>> /\ t[1] \in {"+", "-"} THEN Tail(t) ELSE t
    IN  /\ \E i \in 1 .. Len(u) : u[i] \in Digits
        /\ \A i \in 1 .. Len(u) : u[i] \in Digits \cup {"."}
        /\ Cardinality({i \in 1 .. Len(u) : u[i] = "."}) <= 1

\* C12: a price-range request whose min or max is no numeric string is
\* answered 400 and runs no store query; otherwise it is answered 200 with
\* exactly the potions whose price p has min <= p <= max (none when
\* min > max).
C12_PriceRange ==
    req.op = "priceRange" =>
        IF ~NumericString(req.min) \/ ~NumericString(req.max)
        THEN resp.status = 400 /\ resp.ran = {}
        ELSE LET min == ParseFloat(req.min)
                 max == ParseFloat(req.max)
             IN  /\ resp.status = 200
                 /\ resp.body =
                      {d \in AllPotions :
                         /\ "price" \in DOMAIN d.doc
                         /\ Leq(min, <<d.doc.price, 1>>)
                         /\ Leq(<<d.doc.price, 1>>, max)}
                 /\ ~Leq(min, max) => resp.body = {}

---------------------------------------------------------------------------
(* Properties of the interleavings of the potion store.                    *)

\* C13: between the point where a request reads a record and the point
\* where it writes that record, no other request's write or delete takes
\* effect on it: while a PUT is suspended between its findById and its
\* save, the record it read stays in the collection as it is.  (POST and
\* DELETE are one operation of the store each.)
C13_WritesAtomic ==
    [][ \A r \in pending \cap pending' :
            (r.op = "updatePotion" /\ r.id \in DOMAIN potions)
                => (r.id \in DOMAIN potions'
                      /\ potions'[r.id] = potions[r.id]) ]_vars

---------------------------------------------------------------------------
(* Properties of the outage.                                               *)

\* C14: a request whose store operation rejected has been answered with an
\* HTTP error status by a catch block of its handler: the rejection did
\* not leave the handler and the request is not left without a response.
C14_FailuresAnswered ==
    "rejected" \in DOMAIN req => (req.caught /\ resp.status >= 400)

---------------------------------------------------------------------------
(* Properties of the life of a token.                                      *)

\* C15: a token issued by a login at time t passes authMiddleware on every
\* request that presents it before t + 24h, and gets the expired-session
\* 401 on every request that presents it after t + 24h, whatever the jar
\* holds and whoever has registered, logged in or logged out since: both
\* for the request just answered and for a request that would present any
\* issued token now.
C15_TokenLifetime ==
    /\ \A c \in issued :
          /\ clock < c.iat + ExpiresIn
                => AuthMiddleware(c, clock) =
                     [next |-> TRUE,
                      res |-> [Response(200, "") EXCEPT !.user = {Claims(c)}]]
          /\ clock > c.iat + ExpiresIn
                => AuthMiddleware(c, clock) =
                     [next |-> FALSE, res |-> TokenExpired]
    /\ (req.op = "createPotion" /\ req.cookie \in issued)
          => /\ req.at < req.cookie.iat + ExpiresIn
                   => /\ resp.user = {Claims(req.cookie)}
                      /\ resp.status \in {201, 400}
             /\ req.at > req.cookie.iat + ExpiresIn
                   => resp = TokenExpired

\* After a registration, a second login and a logout, with the jar empty
\* and the first token past its expiry, a request presenting the second
\* token, which the jar no longer holds, was accepted.
C15_Witness ==
    /\ req.op = "createPotion"
    /\ req.cookie \in issued
    /\ jar = {}
    /\ req.at = clock
    /\ resp.user = {Claims(req.cookie)}
    /\ resp.status = 201
    /\ \E c \in issued : clock > c.iat + ExpiresIn
    /\ Cardinality(users) > 1

===========================================================================
